---- MODULE Spec2Model ----
(***************************************************************************)
(* Model of megaman's Geometry store (megaman/geometry/geometry.py) and of *)
(* the eigen-solver selection and dispatch (megaman/utils/eigendecomp.py). *)
(*                                                                         *)
(* A matrix object is a record: `id' is the identity of the Python object, *)
(* `val' names its contents (the identity of the object the contents were  *)
(* first stored in, so that a copy has a new `id' and the same `val'),     *)
(* `ndim' is its rank, `rows' and `cols' its shape.  Python's None is the  *)
(* record None.                                                            *)
(***************************************************************************)
EXTENDS Integers, Sequences, FiniteSets, TLC

VARIABLES
    self,       \* the fields of one Geometry instance
    op,         \* name of the method called last ("init" after construction)
    args,       \* the arguments of that call
    outcome,    \* "ok", or the error the call raised
    ret,        \* the object the call returned (None when it raised)
    calls,      \* the collaborator invocations the call made, in order
    prev,       \* the call before that one, if it was one of the compute
                \* methods: its op, copy and kwargs arguments, outcome, ret
    PYAMG_LOADED, \* whether the import of pyamg succeeded
    eop,        \* eigendecomp function called last
    eargs,      \* the arguments of that call
    eoutcome,   \* "ok", or the error the call raised
    eret,       \* what the call returned
    solves      \* the numerical solver invocations the call made, in order

gvars == <<self, op, args, outcome, ret, calls, prev>>
evars == <<PYAMG_LOADED, eop, eargs, eoutcome, eret, solves>>
vars == <<self, op, args, outcome, ret, calls, prev,
          PYAMG_LOADED, eop, eargs, eoutcome, eret, solves>>

----------------------------------------------------------------------------
(* Values *)

None == [kind |-> "None"]

IsNone(x) == x.kind = "None"

Matrix(i, v, d, r, c) ==
    [kind |-> "matrix", id |-> i, val |-> v, ndim |-> d, rows |-> r, cols |-> c]

\* keyword dictionaries are functions from key names to values
EmptyDict == [k \in {} |-> 0]

Dict(d) == [kind |-> "dict", items |-> d]

\* (kwds or {})
OrEmpty(kwds) == IF IsNone(kwds) THEN EmptyDict ELSE kwds.items

\* d.update(kw)
Update(d, kw) ==
    [k \in (DOMAIN d) \cup (DOMAIN kw) |-> IF k \in DOMAIN kw THEN kw[k] ELSE d[k]]

----------------------------------------------------------------------------
(* Inputs of the calls *)

\* matrices the caller owns and may hand to a setter
SquareA == Matrix(<<"input", 1>>, <<"input", 1>>, 2, 3, 3)
Rect3x4 == Matrix(<<"input", 2>>, <<"input", 2>>, 2, 3, 4)
Vector1D == Matrix(<<"input", 3>>, <<"input", 3>>, 1, 3, 1)

\* square or not, 2-D or not
InputMatrices == {SquareA, Rect3x4, Vector1D}

\* datasets a caller may hand to set_data_matrix: N x D, or not 2-D
InputData == {Rect3x4, Vector1D}

\* keyword arguments a caller may pass to a compute call
CallKwargs == {EmptyDict, [radius |-> 1]}

\* keyword dictionaries a caller may pass to the constructor
CtorKwds == {None, Dict([radius |-> 2, scale |-> 1])}

----------------------------------------------------------------------------
(* Object identities *)

IdOf(x) == IF IsNone(x) THEN {} ELSE {x.id, x.val}

\* identities of the objects reachable from the instance and from the
\* caller, and the names of their contents
LiveIds(st, r) ==
    IdOf(st.X) \cup IdOf(st.adjacency_matrix) \cup IdOf(st.affinity_matrix)
    \cup IdOf(st.laplacian_matrix) \cup IdOf(st.laplacian_symmetric)
    \cup IdOf(st.laplacian_weights) \cup IdOf(r)

\* identity of a newly allocated object: one no live object has.  An
\* identity is a pair of the kind of object and a number.
Fresh(tag, used) ==
    <<tag, CHOOSE n \in 1..(Cardinality(used) + 1) : <<tag, n>> \notin used>>

\* m.copy(): a new object with the contents of m
CopyAs(m, i) == [m EXCEPT !.id = i]

----------------------------------------------------------------------------
(* The collaborators.  Each returns newly allocated matrices, of which the *)
(* model keeps the identity (`i', `j', `k'), the shape and the fact that   *)
(* their contents are new.                                                 *)

\* utils.validation.check_array: rejects input that is not 2-D
check_array_ok(m) == m.ndim = 2

\* adjacency.compute_adjacency_matrix(X, method, **kwds): N x N distances
adjacency_compute_adjacency_matrix(X_, method, kwds, i) ==
    Matrix(i, i, 2, X_.rows, X_.rows)

\* affinity.compute_affinity_matrix(adjacency, method, **kwds)
affinity_compute_affinity_matrix(adj, method, kwds, i) ==
    Matrix(i, i, 2, adj.rows, adj.cols)

\* laplacian.compute_laplacian_matrix(affinity, method, **kwds): the
\* Laplacian, or with full_output the triple (Laplacian, symmetric, weights)
laplacian_compute_laplacian_matrix(aff, method, kwds, i, j, k) ==
    LET L == Matrix(i, i, 2, aff.rows, aff.cols)
    IN  IF kwds["full_output"]
        THEN <<L, Matrix(j, j, 2, aff.rows, aff.cols),
               Matrix(k, k, 1, aff.rows, 1)>>
        ELSE <<L>>

----------------------------------------------------------------------------
(* The methods of Geometry, as functions from the instance `st' and the    *)
(* arguments to the instance after the call, the error raised, the value   *)
(* returned and the collaborator invocations made.  `used' holds the       *)
(* identities of the live objects.                                         *)

Result(st, err, r, cs, used) ==
    [st |-> st, err |-> err, ret |-> r, calls |-> cs, used |-> used]

Call(fn, in, method, kwds, out) ==
    [fn |-> fn, in |-> in, method |-> method, kwds |-> kwds, out |-> out]

\* faulty variant: the copy flag is ignored and the cached object itself is returned
Returned_live(st, field, copy, cs, used) ==
    Result(st, "ok", st[field], cs, used)

\* "if copy: return self.<field>.copy() else: return self.<field>"
Returned(st, field, copy, cs, used) ==
    IF copy
    THEN Result(st, "ok", CopyAs(st[field], Fresh("copy", used)), cs,
                used \cup {Fresh("copy", used)})
    ELSE Result(st, "ok", st[field], cs, used)

\* a failed upstream call: the error propagates
Raised(pre) == Result(pre.st, pre.err, None, pre.calls, pre.used)

\* no upstream call was needed
Skipped(st, used) == Result(st, "ok", None, <<>>, used)

\* compute_adjacency_matrix once the dataset is known to be there: merge the
\* keywords, invoke the collaborator, store and return
AdjacencyStore(st, copy, adjacency_kwds, i, used) ==
    LET out == adjacency_compute_adjacency_matrix(
                   st.X, st.adjacency_method, adjacency_kwds, i)
    IN  Returned([st EXCEPT !.adjacency_matrix = out], "adjacency_matrix",
                 copy,
                 <<Call("compute_adjacency_matrix", st.X,
                        st.adjacency_method, adjacency_kwds, out)>>,
                 used \cup {i})

AdjacencyStep(st, copy, kwargs, used) ==
    AdjacencyStore(st, copy, Update(OrEmpty(st.adjacency_kwds), kwargs),
                   Fresh("adjacency", used), used)

\* faulty variant: a cached adjacency matrix is returned without recomputation when
\* no keyword arguments are passed
Geometry_compute_adjacency_matrix_cached(st, copy, kwargs, used) ==
    IF IsNone(st.X)
    THEN Result(st, "MissingDataError", None, <<>>, used)
    ELSE IF ~IsNone(st.adjacency_matrix) /\ kwargs = EmptyDict
    THEN Returned(st, "adjacency_matrix", copy, <<>>, used)
    ELSE AdjacencyStep(st, copy, kwargs, used)

\* faulty variant: the missing-data error is raised only when there is neither a
\* dataset nor an adjacency matrix; without a dataset the adjacency matrix
\* at hand is returned
Geometry_compute_adjacency_matrix_lenient(st, copy, kwargs, used) ==
    IF IsNone(st.X) /\ IsNone(st.adjacency_matrix)
    THEN Result(st, "MissingDataError", None, <<>>, used)
    ELSE IF IsNone(st.X)
    THEN Returned(st, "adjacency_matrix", copy, <<>>, used)
    ELSE AdjacencyStep(st, copy, kwargs, used)

Geometry_compute_adjacency_matrix(st, copy, kwargs, used) ==
    IF IsNone(st.X)
    THEN Result(st, "MissingDataError", None, <<>>, used)
    ELSE AdjacencyStep(st, copy, kwargs, used)

\* compute_affinity_matrix after its upstream step `pre': merge the
\* keywords, invoke the collaborator on `input', store and return
AffinityStore(pre, input, copy, affinity_kwds, i) ==
    LET out == affinity_compute_affinity_matrix(
                   input, pre.st.affinity_method, affinity_kwds, i)
    IN  Returned([pre.st EXCEPT !.affinity_matrix = out], "affinity_matrix",
                 copy,
                 Append(pre.calls,
                        Call("compute_affinity_matrix", input,
                             pre.st.affinity_method, affinity_kwds, out)),
                 pre.used \cup {i})

AffinityStep(pre, copy, kwargs) ==
    IF pre.err # "ok"
    THEN Raised(pre)
    ELSE AffinityStore(pre, pre.st.adjacency_matrix, copy,
                       Update(OrEmpty(pre.st.affinity_kwds), kwargs),
                       Fresh("affinity", pre.used))

\* faulty variant: the affinity collaborator is given a copy of the adjacency
\* matrix that was just derived, not the cached one
AffinityStep_oncopy(pre, copy, kwargs) ==
    IF pre.err # "ok"
    THEN Raised(pre)
    ELSE AffinityStore(pre,
                       IF pre.calls = <<>> THEN pre.st.adjacency_matrix
                       ELSE CopyAs(pre.st.adjacency_matrix,
                                   Fresh("copy", pre.used)),
                       copy,
                       Update(OrEmpty(pre.st.affinity_kwds), kwargs),
                       Fresh("affinity", pre.used))

Geometry_compute_affinity_matrix_oncopy(st, copy, kwargs, used) ==
    AffinityStep_oncopy(
        IF IsNone(st.adjacency_matrix)
        THEN Geometry_compute_adjacency_matrix(st, FALSE, EmptyDict, used)
        ELSE Skipped(st, used),
        copy, kwargs)

Geometry_compute_affinity_matrix(st, copy, kwargs, used) ==
    AffinityStep(
        IF IsNone(st.adjacency_matrix)
        THEN Geometry_compute_adjacency_matrix(st, FALSE, EmptyDict, used)
        ELSE Skipped(st, used),
        copy, kwargs)

\* "if return_lapsym: (self.laplacian_matrix, self.laplacian_symmetric,
\* self.laplacian_weights) = result else: self.laplacian_matrix = result"
LaplacianAssign(st, return_lapsym, result) ==
    IF return_lapsym
    THEN [st EXCEPT !.laplacian_matrix = result[1],
                    !.laplacian_symmetric = result[2],
                    !.laplacian_weights = result[3]]
    ELSE [st EXCEPT !.laplacian_matrix = result[1]]

\* compute_laplacian_matrix after its upstream step `pre': merge the
\* keywords, set full_output, invoke the collaborator, store and return
LaplacianStore(pre, copy, return_lapsym, laplacian_kwds, result) ==
    Returned(LaplacianAssign(pre.st, return_lapsym, result),
             "laplacian_matrix", copy,
             Append(pre.calls,
                    Call("compute_laplacian_matrix", pre.st.affinity_matrix,
                         pre.st.laplacian_method, laplacian_kwds, result)),
             pre.used \cup {result[n].id : n \in 1..Len(result)})

LaplacianInvoke(pre, copy, return_lapsym, laplacian_kwds) ==
    LaplacianStore(pre, copy, return_lapsym, laplacian_kwds,
                   laplacian_compute_laplacian_matrix(
                       pre.st.affinity_matrix, pre.st.laplacian_method,
                       laplacian_kwds,
                       Fresh("laplacian", pre.used),
                       Fresh("laplacian_symmetric", pre.used),
                       Fresh("laplacian_weights", pre.used)))

LaplacianStep(pre, copy, return_lapsym, kwargs) ==
    IF pre.err # "ok"
    THEN Raised(pre)
    ELSE LaplacianInvoke(pre, copy, return_lapsym,
                         Update(Update(OrEmpty(pre.st.laplacian_kwds), kwargs),
                                [full_output |-> return_lapsym]))

\* faulty variant: the affinity matrix is derived anew whether or not one is
\* at hand
Geometry_compute_laplacian_matrix_eager(st, copy, return_lapsym, kwargs, used) ==
    LaplacianStep(
        Geometry_compute_affinity_matrix(st, FALSE, EmptyDict, used),
        copy, return_lapsym, kwargs)

\* faulty variant: the cached Laplacian is dropped before the upstream matrices
\* are derived
Geometry_compute_laplacian_matrix_drop(st, copy, return_lapsym, kwargs, used) ==
    LaplacianStep(
        IF IsNone(st.affinity_matrix)
        THEN Geometry_compute_affinity_matrix(
                 [st EXCEPT !.laplacian_matrix = None], FALSE, EmptyDict, used)
        ELSE Skipped([st EXCEPT !.laplacian_matrix = None], used),
        copy, return_lapsym, kwargs)

Geometry_compute_laplacian_matrix(st, copy, return_lapsym, kwargs, used) ==
    LaplacianStep(
        IF IsNone(st.affinity_matrix)
        THEN Geometry_compute_affinity_matrix(st, FALSE, EmptyDict, used)
        ELSE Skipped(st, used),
        copy, return_lapsym, kwargs)

Geometry_set_data_matrix(st, X_) ==
    IF ~check_array_ok(X_)
    THEN Result(st, "InvalidInputError", None, <<>>, {})
    ELSE Result([st EXCEPT !.X = X_], "ok", None, <<>>, {})

Geometry_set_adjacency_matrix(st, adjacency_mat) ==
    IF ~check_array_ok(adjacency_mat)
    THEN Result(st, "InvalidInputError", None, <<>>, {})
    ELSE IF adjacency_mat.rows # adjacency_mat.cols
    THEN Result(st, "ShapeError", None, <<>>, {})
    ELSE Result([st EXCEPT !.adjacency_matrix = adjacency_mat],
                "ok", None, <<>>, {})

\* faulty variant: the matrix is stored before its shape is checked
Geometry_set_affinity_matrix_early(st, affinity_mat) ==
    IF ~check_array_ok(affinity_mat)
    THEN Result(st, "InvalidInputError", None, <<>>, {})
    ELSE IF affinity_mat.rows # affinity_mat.cols
    THEN Result([st EXCEPT !.affinity_matrix = affinity_mat],
                "ShapeError", None, <<>>, {})
    ELSE Result([st EXCEPT !.affinity_matrix = affinity_mat],
                "ok", None, <<>>, {})

Geometry_set_affinity_matrix(st, affinity_mat) ==
    IF ~check_array_ok(affinity_mat)
    THEN Result(st, "InvalidInputError", None, <<>>, {})
    ELSE IF affinity_mat.rows # affinity_mat.cols
    THEN Result(st, "ShapeError", None, <<>>, {})
    ELSE Result([st EXCEPT !.affinity_matrix = affinity_mat],
                "ok", None, <<>>, {})

Geometry_set_laplacian_matrix(st, laplacian_mat) ==
    IF ~check_array_ok(laplacian_mat)
    THEN Result(st, "InvalidInputError", None, <<>>, {})
    ELSE IF laplacian_mat.rows # laplacian_mat.cols
    THEN Result(st, "ShapeError", None, <<>>, {})
    ELSE Result([st EXCEPT !.laplacian_matrix = laplacian_mat],
                "ok", None, <<>>, {})

Geometry_delete_data_matrix(st) ==
    Result([st EXCEPT !.X = None], "ok", None, <<>>, {})

\* faulty variant: clearing the adjacency matrix also clears what was derived
\* from it
Geometry_delete_adjacency_matrix_cascade(st) ==
    Result([st EXCEPT !.adjacency_matrix = None, !.affinity_matrix = None,
                      !.laplacian_matrix = None], "ok", None, <<>>, {})

Geometry_delete_adjacency_matrix(st) ==
    Result([st EXCEPT !.adjacency_matrix = None], "ok", None, <<>>, {})

Geometry_delete_affinity_matrix(st) ==
    Result([st EXCEPT !.affinity_matrix = None], "ok", None, <<>>, {})

\* faulty variant: clearing the Laplacian also clears its symmetric form and
\* the weights
Geometry_delete_laplacian_matrix_all(st) ==
    Result([st EXCEPT !.laplacian_matrix = None, !.laplacian_symmetric = None,
                      !.laplacian_weights = None], "ok", None, <<>>, {})

Geometry_delete_laplacian_matrix(st) ==
    Result([st EXCEPT !.laplacian_matrix = None], "ok", None, <<>>, {})

----------------------------------------------------------------------------
(* The Geometry instance as a state machine: one action per method call. *)

Args(copy, return_lapsym, kwargs, m) ==
    [copy |-> copy, return_lapsym |-> return_lapsym, kwargs |-> kwargs,
     matrix |-> m]

NoArgs == Args(FALSE, FALSE, EmptyDict, None)

\* Geometry.__init__
Geometry_init(adjacency_kwds, affinity_kwds, laplacian_kwds) ==
    [adjacency_method |-> "auto", adjacency_kwds |-> adjacency_kwds,
     affinity_method |-> "auto", affinity_kwds |-> affinity_kwds,
     laplacian_method |-> "auto", laplacian_kwds |-> laplacian_kwds,
     X |-> None, adjacency_matrix |-> None, affinity_matrix |-> None,
     laplacian_matrix |-> None, laplacian_symmetric |-> None,
     laplacian_weights |-> None]

ComputeOps == {"compute_adjacency_matrix", "compute_affinity_matrix",
               "compute_laplacian_matrix"}

\* the call before was not a compute method
NoPrev ==
    [op |-> "none", copy |-> FALSE, kwargs |-> EmptyDict, outcome |-> "ok",
     ret |-> None]

\* the state after a call that produced the result r
Finish(name, a, r) ==
    /\ self' = r.st
    /\ op' = name
    /\ args' = a
    /\ outcome' = r.err
    /\ ret' = r.ret
    /\ calls' = r.calls
    /\ prev' = IF op \in ComputeOps
               THEN [op |-> op, copy |-> args.copy, kwargs |-> args.kwargs,
                     outcome |-> outcome, ret |-> ret]
               ELSE NoPrev

ComputeAdjacency ==
    \E copy \in BOOLEAN, kwargs \in CallKwargs :
        Finish("compute_adjacency_matrix", Args(copy, FALSE, kwargs, None),
               Geometry_compute_adjacency_matrix(self, copy, kwargs,
                                                 LiveIds(self, ret)))

ComputeAffinity ==
    \E copy \in BOOLEAN, kwargs \in CallKwargs :
        Finish("compute_affinity_matrix", Args(copy, FALSE, kwargs, None),
               Geometry_compute_affinity_matrix(self, copy, kwargs,
                                                LiveIds(self, ret)))

ComputeLaplacian ==
    \E copy \in BOOLEAN, return_lapsym \in BOOLEAN, kwargs \in CallKwargs :
        Finish("compute_laplacian_matrix",
               Args(copy, return_lapsym, kwargs, None),
               Geometry_compute_laplacian_matrix(self, copy, return_lapsym,
                                                 kwargs, LiveIds(self, ret)))

SetDataMatrix ==
    \E m \in InputData :
        Finish("set_data_matrix", Args(FALSE, FALSE, EmptyDict, m),
               Geometry_set_data_matrix(self, m))

SetAdjacencyMatrix ==
    \E m \in InputMatrices :
        Finish("set_adjacency_matrix", Args(FALSE, FALSE, EmptyDict, m),
               Geometry_set_adjacency_matrix(self, m))

SetAffinityMatrix ==
    \E m \in InputMatrices :
        Finish("set_affinity_matrix", Args(FALSE, FALSE, EmptyDict, m),
               Geometry_set_affinity_matrix(self, m))

SetLaplacianMatrix ==
    \E m \in InputMatrices :
        Finish("set_laplacian_matrix", Args(FALSE, FALSE, EmptyDict, m),
               Geometry_set_laplacian_matrix(self, m))

DeleteDataMatrix ==
    Finish("delete_data_matrix", NoArgs, Geometry_delete_data_matrix(self))

DeleteAdjacencyMatrix ==
    Finish("delete_adjacency_matrix", NoArgs,
           Geometry_delete_adjacency_matrix(self))

DeleteAffinityMatrix ==
    Finish("delete_affinity_matrix", NoArgs,
           Geometry_delete_affinity_matrix(self))

DeleteLaplacianMatrix ==
    Finish("delete_laplacian_matrix", NoArgs,
           Geometry_delete_laplacian_matrix(self))

GeometryInit ==
    /\ \E kwds \in CtorKwds : self = Geometry_init(kwds, kwds, kwds)
    /\ op = "init"
    /\ args = NoArgs
    /\ outcome = "ok"
    /\ ret = None
    /\ calls = <<>>
    /\ prev = NoPrev


----------------------------------------------------------------------------
(* eigendecomp.py: solver selection, eigen_decomposition and null_space.   *)
(* A square matrix is a record: `size' is its number of rows, `symmetric'  *)
(* what _is_symmetric finds, `shift' the multiple of the identity that has *)
(* been added to the caller's matrix, `lowest' its smallest eigenvalue.    *)
(* An optional integer is <<>> (None) or <<n>>.                            *)

EIGEN_SOLVERS == {"auto", "dense", "arpack", "lobpcg", "amg"}

\* thresholds of check_eigen_solver
AutoMinSize == 200
AutoMaxNvec == 10
LobpcgFactor == 5

\* bounds of the inputs
MaxSize == 201
MaxK == 10

NoInt == <<>>
Some(n) == <<n>>
Known(x) == Len(x) = 1

SolverNames == EIGEN_SOLVERS \cup {"bogus"}
Sizes == {4, 12, MaxSize}
Ks == {1, 2, MaxK}
KSkips == {0, 1, 2}

\* the smallest eigenvalue of an input matrix: a positive semi-definite
\* matrix with a zero mode, and one with negative eigenvalues
Lowest == {0, -9}

\* a matrix with the `n' distinct eigenvalues lo, lo + 5, lo + 10, ...
\* (no two of the same magnitude), diagonal when symmetric and triangular
\* otherwise
SquareMatrix(n, sym, lo) ==
    [size |-> n, symmetric |-> sym, lowest |-> lo, shift |-> 0]

\* c * identity + M
Shifted(M, c) == [M EXCEPT !.shift = @ + c]

Matrices ==
    {SquareMatrix(n, TRUE, lo) : n \in Sizes, lo \in Lowest}
        \cup {SquareMatrix(n, FALSE, 0) : n \in Sizes}

Min(a, b) == IF a < b THEN a ELSE b

Abs(x) == IF x < 0 THEN 0 - x ELSE x

\* s[lo:hi]
Slice(s, lo, hi) == SubSeq(s, lo + 1, Min(hi, Len(s)))

\* s[::-1]
Reverse(s) == [i \in 1..Len(s) |-> s[Len(s) + 1 - i]]

\* s[index]
Take(s, index) == [i \in 1..Len(index) |-> s[index[i]]]

\* np.argsort(s), on distinct values
argsort(s) ==
    LET before(i, j) == s[i] < s[j]
    IN  SortSeq([i \in 1..Len(s) |-> i], before)

\* np.abs(s)
AbsAll(s) == [i \in 1..Len(s) |-> Abs(s[i])]

\* s - c
Minus(s, c) == [i \in 1..Len(s) |-> s[i] - c]

RECURSIVE Sum(_)
\* np.sum(s)
Sum(s) == IF s = <<>> THEN 0 ELSE Head(s) + Sum(Tail(s))

\* the i-th smallest eigenvalue of the matrix the caller passed, which also
\* names its eigenvector
Eigenvalue(G, i) == G.lowest + 5 * (i - 1)

\* what a numerical routine returns: eigenvalues `w' and, column by column,
\* the eigenvectors `v'
EigResult(w, v) == [w |-> w, v |-> v]

\* the eigenpairs first..last of G, in ascending order of eigenvalue
Eigenpairs(G, first, last) ==
    EigResult([i \in 1..(last + 1 - first) |->
                   Eigenvalue(G, first + i - 1) + G.shift],
              [i \in 1..(last + 1 - first) |-> Eigenvalue(G, first + i - 1)])

\* scipy.linalg.eigh: every eigenpair, eigenvalues ascending
eigh(G) == Eigenpairs(G, 1, G.size)

\* scipy.linalg.eigh(eigvals=(lo, hi)): the eigenpairs lo..hi, counted from 0
eigh_eigvals(G, lo, hi) == Eigenpairs(G, lo + 1, hi + 1)

\* scipy.linalg.eig of a triangular matrix: the diagonal as stored, here
\* descending
eig(G) == EigResult(Reverse(eigh(G).w), Reverse(eigh(G).v))

\* lobpcg with a block of n_find columns: the n_find largest eigenvalues,
\* descending, or the n_find smallest, ascending
lobpcg(G, n_find, largest) ==
    IF largest
    THEN EigResult(Reverse(Eigenpairs(G, G.size + 1 - n_find, G.size).w),
                   Reverse(Eigenpairs(G, G.size + 1 - n_find, G.size).v))
    ELSE Eigenpairs(G, 1, n_find)

RECURSIVE outermost(_, _, _, _)
\* the eigenpairs a..b that are left when the k eigenvalues of largest
\* magnitude are taken, one at a time, from the two ends of the spectrum
outermost(G, a, b, k) ==
    IF k = 0 THEN <<a, b>>
    ELSE IF Abs(Eigenvalue(G, a) + G.shift) > Abs(Eigenvalue(G, b) + G.shift)
    THEN outermost(G, a + 1, b, k - 1)
    ELSE outermost(G, a, b - 1, k - 1)

RECURSIVE nadir(_, _)
\* the index, from i on, of the eigenvalue of smallest magnitude
nadir(G, i) ==
    IF i = G.size
          \/ Abs(Eigenvalue(G, i + 1) + G.shift)
                 > Abs(Eigenvalue(G, i) + G.shift)
    THEN i
    ELSE nadir(G, i + 1)

RECURSIVE innermost(_, _, _, _)
\* the eigenpairs a..b once k more eigenvalues of smallest magnitude are
\* added, one at a time, at either side
innermost(G, a, b, k) ==
    IF k = 0 THEN <<a, b>>
    ELSE IF a = 1 THEN innermost(G, a, b + 1, k - 1)
    ELSE IF b = G.size THEN innermost(G, a - 1, b, k - 1)
    ELSE IF Abs(Eigenvalue(G, a - 1) + G.shift)
                < Abs(Eigenvalue(G, b + 1) + G.shift)
    THEN innermost(G, a - 1, b, k - 1)
    ELSE innermost(G, a, b + 1, k - 1)

\* the eigenpairs outside a window, ascending
Outside(G, window) ==
    EigResult(Eigenpairs(G, 1, window[1] - 1).w
                  \o Eigenpairs(G, window[2] + 1, G.size).w,
              Eigenpairs(G, 1, window[1] - 1).v
                  \o Eigenpairs(G, window[2] + 1, G.size).v)

\* scipy.sparse.linalg.eigsh: k eigenpairs chosen by `which', returned in
\* ascending order of eigenvalue.  "LM" and "SM" choose by magnitude;
\* "sigma=0" is the shift-invert mode, which finds the eigenvalues nearest 0.
eigsh(G, k, which) ==
    IF which = "LM"
    THEN Outside(G, outermost(G, 1, G.size, k))
    ELSE Eigenpairs(G, innermost(G, nadir(G, 1), nadir(G, 1), k - 1)[1],
                    innermost(G, nadir(G, 1), nadir(G, 1), k - 1)[2])

\* scipy.sparse.linalg.eigs: k eigenpairs of largest ("LR") or smallest
\* ("SR") real part, ascending
eigs(G, k, which) ==
    IF which = "LR"
    THEN Eigenpairs(G, G.size + 1 - k, G.size)
    ELSE Eigenpairs(G, 1, k)

\* the result of a call: the error raised ("ok" if none), the solver mode
\* resolved, the eigenvalues and the eigenvectors returned and their number,
\* the error estimate of null_space, the amount by which returned eigenvalues
\* exceed those of the caller's matrix, and the numerical routines invoked,
\* in order
EResult(err, solver, lambdas, vectors, excess, log) ==
    [err |-> err, solver |-> solver, lambdas |-> lambdas, vectors |-> vectors,
     n |-> Len(vectors), error |-> 0, excess |-> excess, solves |-> log]

ERaise(err, solver, log) == EResult(err, solver, <<>>, <<>>, 0, log)

\* "return (lambdas, diffusion_map)"
EReturn(solver, r, excess, log) ==
    EResult("ok", solver, r.w, r.v, excess, log)

\* "return eigen_solver"
EName(solver) == EResult("ok", solver, <<>>, <<>>, 0, <<>>)

\* faulty variant: ten vectors still count as few
auto_solver_inclusive(size, nvec, amg_loaded) ==
    IF size > AutoMinSize /\ nvec <= AutoMaxNvec
    THEN IF amg_loaded THEN "amg" ELSE "arpack"
    ELSE "dense"

\* "if size > 200 and nvec < 10: amg if PYAMG_LOADED else arpack; else dense"
auto_solver(size, nvec, amg_loaded) ==
    IF size > AutoMinSize /\ nvec < AutoMaxNvec
    THEN IF amg_loaded THEN "amg" ELSE "arpack"
    ELSE "dense"

\* faulty variant: the availability of pyamg is not tested
check_eigen_solver_unchecked(eigen_solver, size, nvec) ==
    IF eigen_solver \notin EIGEN_SOLVERS
    THEN ERaise("UnsupportedSolverError", "none", <<>>)
    ELSE IF Known(size) /\ Known(nvec)
    THEN IF eigen_solver = "lobpcg" /\ size[1] < LobpcgFactor * nvec[1] + 1
         THEN EName("dense")
         ELSE IF eigen_solver = "auto"
         THEN EName(auto_solver(size[1], nvec[1], TRUE))
         ELSE EName(eigen_solver)
    ELSE EName(eigen_solver)

check_eigen_solver(eigen_solver, size, nvec) ==
    IF eigen_solver \notin EIGEN_SOLVERS
    THEN ERaise("UnsupportedSolverError", "none", <<>>)
    ELSE IF eigen_solver = "amg" /\ ~PYAMG_LOADED
    THEN ERaise("UnavailableSolverError", "none", <<>>)
    ELSE IF Known(size) /\ Known(nvec)
    THEN IF eigen_solver = "lobpcg" /\ size[1] < LobpcgFactor * nvec[1] + 1
         THEN EName("dense")
         ELSE IF eigen_solver = "auto"
         THEN EName(auto_solver(size[1], nvec[1], PYAMG_LOADED))
         ELSE EName(eigen_solver)
    ELSE EName(eigen_solver)

\* one invocation of a numerical routine and how it ended: "ok", "failed"
\* (no convergence, singular factor) or "rejected" (arguments refused)
Solve(fn, G, k, which, end) ==
    [fn |-> fn, size |-> G.size, shift |-> G.shift, k |-> k, which |-> which,
     end |-> end]

\* "lambdas[sort_order]; diffusion_map[:, sort_order]" and the truncation of
\* both to n_components
sort_truncate(r, sort_order, n_components) ==
    EigResult(Slice(Take(r.w, sort_order), 0, n_components),
              Slice(Take(r.v, sort_order), 0, n_components))

\* the lines after the call of lobpcg
lobpcg_sorted(r, n_components, largest) ==
    sort_truncate(r, IF largest THEN Reverse(argsort(r.w)) ELSE argsort(r.w),
                  n_components)

\* faulty variant: lobpcg is run without the symmetry test
lobpcg_branch_unchecked(G, n_components, solver, largest, converges, pre) ==
    IF ~converges
    THEN ERaise("LinAlgError", solver,
                Append(pre, Solve("lobpcg", G,
                                  Min(G.size, 5 + 2 * n_components),
                                  IF largest THEN "largest" ELSE "smallest",
                                  "failed")))
    ELSE EReturn(solver,
                 lobpcg_sorted(lobpcg(G, Min(G.size, 5 + 2 * n_components),
                                      largest),
                               n_components, largest),
                 G.shift,
                 Append(pre, Solve("lobpcg", G,
                                   Min(G.size, 5 + 2 * n_components),
                                   IF largest THEN "largest" ELSE "smallest",
                                   "ok")))

\* the lobpcg and amg branches share the block size, the sort and the
\* truncation; `pre' holds the routines invoked before lobpcg
lobpcg_branch(G, n_components, solver, largest, converges, pre) ==
    IF ~G.symmetric
    THEN ERaise("SymmetryRequiredError", solver, <<>>)
    ELSE IF ~converges
    THEN ERaise("LinAlgError", solver,
                Append(pre, Solve("lobpcg", G,
                                  Min(G.size, 5 + 2 * n_components),
                                  IF largest THEN "largest" ELSE "smallest",
                                  "failed")))
    ELSE EReturn(solver,
                 lobpcg_sorted(lobpcg(G, Min(G.size, 5 + 2 * n_components),
                                      largest),
                               n_components, largest),
                 G.shift,
                 Append(pre, Solve("lobpcg", G,
                                   Min(G.size, 5 + 2 * n_components),
                                   IF largest THEN "largest" ELSE "smallest",
                                   "ok")))

\* the symmetric case of the arpack branch; eigsh accepts k < size only
arpack_symmetric(G, n_components, which, converges) ==
    IF n_components >= G.size
    THEN ERaise("ValueError", "arpack",
                <<Solve("eigsh", G, n_components, which, "rejected")>>)
    ELSE IF ~converges
    THEN ERaise("ArpackNoConvergence", "arpack",
                <<Solve("eigsh", G, n_components, which, "failed")>>)
    ELSE EReturn("arpack", eigsh(G, n_components, which), G.shift,
                 <<Solve("eigsh", G, n_components, which, "ok")>>)

\* the other case; eigs accepts k < size - 1 only
arpack_general(G, n_components, which, converges) ==
    IF n_components >= G.size - 1
    THEN ERaise("ValueError", "arpack",
                <<Solve("eigs", G, n_components, which, "rejected")>>)
    ELSE IF ~converges
    THEN ERaise("ArpackNoConvergence", "arpack",
                <<Solve("eigs", G, n_components, which, "failed")>>)
    ELSE EReturn("arpack", eigs(G, n_components, which), G.shift,
                 <<Solve("eigs", G, n_components, which, "ok")>>)

arpack_branch(G, n_components, largest, converges) ==
    IF G.symmetric
    THEN arpack_symmetric(G, n_components, IF largest THEN "LM" ELSE "SM",
                          converges)
    ELSE arpack_general(G, n_components, IF largest THEN "LR" ELSE "SR",
                        converges)

\* "if largest: lambdas[::-1]" and the truncation to n_components
dense_ordered(r, n_components, largest) ==
    EigResult(Slice(IF largest THEN Reverse(r.w) ELSE r.w, 0, n_components),
              Slice(IF largest THEN Reverse(r.v) ELSE r.v, 0, n_components))

dense_branch(G, n_components, largest) ==
    EReturn("dense",
            dense_ordered(IF G.symmetric THEN eigh(G) ELSE eig(G),
                          n_components, largest),
            G.shift,
            <<Solve(IF G.symmetric THEN "eigh" ELSE "eig", G, G.size, "all",
                    "ok")>>)

\* eigen_decomposition from "Try Eigen Methods" on, for the resolved solver
\* faulty variant: an asymmetric matrix resolved to amg is handed to the
\* arpack branch, which accepts it
eigen_dispatch_fallback(G, n_components, chk, largest, converges) ==
    IF chk.err # "ok" THEN chk
    ELSE CASE chk.solver = "arpack" ->
                  arpack_branch(G, n_components, largest, converges)
           [] chk.solver = "amg" /\ ~G.symmetric ->
                  arpack_branch(G, n_components, largest, converges)
           [] chk.solver = "amg" /\ G.symmetric ->
                  lobpcg_branch(G, n_components, "amg", largest, converges,
                      <<Solve("smoothed_aggregation_solver", G, 0, "none",
                              "ok")>>)
           [] chk.solver = "lobpcg" ->
                  lobpcg_branch(G, n_components, "lobpcg", largest, converges,
                                <<>>)
           [] chk.solver = "dense" ->
                  dense_branch(G, n_components, largest)
           [] OTHER -> ERaise("UnboundLocalError", chk.solver, <<>>)

eigen_dispatch(G, n_components, chk, largest, converges) ==
    IF chk.err # "ok" THEN chk
    ELSE CASE chk.solver = "arpack" ->
                  arpack_branch(G, n_components, largest, converges)
           [] chk.solver = "amg" ->
                  lobpcg_branch(G, n_components, "amg", largest, converges,
                      <<Solve("smoothed_aggregation_solver", G, 0, "none",
                              "ok")>>)
           [] chk.solver = "lobpcg" ->
                  lobpcg_branch(G, n_components, "lobpcg", largest, converges,
                                <<>>)
           [] chk.solver = "dense" ->
                  dense_branch(G, n_components, largest)
           [] OTHER -> ERaise("UnboundLocalError", chk.solver, <<>>)

\* eigen_decomposition once n_components includes the dropped pair
eigen_stage(G, n_components, eigen_solver, largest, converges) ==
    eigen_dispatch(G, n_components,
                   check_eigen_solver(eigen_solver, Some(G.size),
                                      Some(n_components)),
                   largest, converges)

\* faulty variant: the solver is chosen for n_components without the pair
\* that drop_first adds
eigen_decomposition_nodrop(G, n_components, eigen_solver, drop_first, largest, converges) ==
    eigen_stage(G, n_components, eigen_solver, largest, converges)

eigen_decomposition(G, n_components, eigen_solver, drop_first, largest, converges) ==
    eigen_stage(G, IF drop_first THEN n_components + 1 ELSE n_components,
                eigen_solver, largest, converges)

\* "return eigen_vectors[:, lo:hi], np.sum(eigen_values[lo:hi])"
NullSpaceReturn(solver, eigen_vectors, eigen_values, lo, hi, excess, log) ==
    [err |-> "ok", solver |-> solver,
     lambdas |-> Slice(eigen_values, lo, hi),
     vectors |-> Slice(eigen_vectors, lo, hi),
     n |-> Len(Slice(eigen_vectors, lo, hi)),
     error |-> Sum(Slice(eigen_values, lo, hi)),
     excess |-> excess, solves |-> log]

\* "index = np.argsort(np.abs(eigen_values))", both arrays taken at index,
\* and the return of [k_skip:k+1]
null_space_sorted(solver, w, v, index, k, k_skip, excess, log) ==
    NullSpaceReturn(solver, Take(v, index), Take(w, index), k_skip, k + 1,
                    excess, log)

\* eigsh accepts k + k_skip < size only; its other failures are
\* RuntimeErrors, which the branch turns into its own error
null_space_arpack(M, k, k_skip, converges) ==
    IF k + k_skip >= M.size
    THEN ERaise("ValueError", "arpack",
                <<Solve("eigsh", M, k + k_skip, "sigma=0", "rejected")>>)
    ELSE IF ~converges
    THEN ERaise("NullSpaceComputationError", "arpack",
                <<Solve("eigsh", M, k + k_skip, "sigma=0", "failed")>>)
    ELSE NullSpaceReturn("arpack", eigsh(M, k + k_skip, "sigma=0").v,
                         eigsh(M, k + k_skip, "sigma=0").w,
                         k_skip, k + k_skip, 0,
                         <<Solve("eigsh", M, k + k_skip, "sigma=0", "ok")>>)

\* eigh(M, eigvals=(0, k+k_skip)) needs k+k_skip < size
null_space_dense(M, k, k_skip) ==
    IF k + k_skip >= M.size
    THEN ERaise("ValueError", "dense",
                <<Solve("eigh", M, k + k_skip + 1, "eigvals", "rejected")>>)
    ELSE null_space_sorted("dense", eigh_eigvals(M, 0, k + k_skip).w,
                           eigh_eigvals(M, 0, k + k_skip).v,
                           argsort(AbsAll(eigh_eigvals(M, 0, k + k_skip).w)),
                           k, k_skip, 0,
                           <<Solve("eigh", M, k + k_skip + 1, "eigvals",
                                   "ok")>>)

\* the lines after an eigen_decomposition call in the amg/lobpcg branch:
\* subtract `sub', sort by magnitude, return [k_skip:k+1]
null_space_slice(r, sub, k, k_skip, log) ==
    IF r.err # "ok"
    THEN ERaise(r.err, r.solver, log \o r.solves)
    ELSE null_space_sorted(r.solver, Minus(r.lambdas, sub), r.vectors,
                           argsort(AbsAll(Minus(r.lambdas, sub))),
                           k, k_skip, r.excess - sub, log \o r.solves)

\* the except branch: M is by now I + M
null_space_retry(M1, first, k, k_skip, eigen_solver, converges) ==
    null_space_slice(
        eigen_decomposition(Shifted(M1, 2),
                            Min(k + k_skip + 10, M1.size), eigen_solver,
                            FALSE, FALSE, converges),
        2, k, k_skip, first.solves)

null_space_first(M1, first, k, k_skip, eigen_solver, converges2) ==
    IF first.err = "LinAlgError"
    THEN null_space_retry(M1, first, k, k_skip, eigen_solver, converges2)
    ELSE null_space_slice(first, 1, k, k_skip, <<>>)

null_space_shifted(M1, k, k_skip, eigen_solver, converges1, converges2) ==
    null_space_first(M1,
        eigen_decomposition(M1, Min(k + k_skip + 10, M1.size), eigen_solver,
                            FALSE, FALSE, converges1),
        k, k_skip, eigen_solver, converges2)

null_space_dispatch(M, k, k_skip, chk, converges1, converges2) ==
    IF chk.err # "ok" THEN chk
    ELSE CASE chk.solver = "arpack" ->
                  null_space_arpack(M, k, k_skip, converges1)
           [] chk.solver = "dense" ->
                  null_space_dense(M, k, k_skip)
           [] chk.solver \in {"amg", "lobpcg"} ->
                  null_space_shifted(Shifted(M, 1), k, k_skip, chk.solver,
                                     converges1, converges2)
           [] OTHER -> ERaise("UnsupportedSolverError", chk.solver, <<>>)

null_space(M, k, k_skip, eigen_solver, converges1, converges2) ==
    null_space_dispatch(M, k, k_skip,
                        check_eigen_solver(eigen_solver, Some(M.size),
                                           Some(k + k_skip)),
                        converges1, converges2)

----------------------------------------------------------------------------
(* Calls into eigendecomp.py: one action per function. *)

EArgs(eigen_solver, size, nvec, G, k, k_skip, drop_first, largest) ==
    [eigen_solver |-> eigen_solver, size |-> size, nvec |-> nvec,
     G |-> G, k |-> k, k_skip |-> k_skip, drop_first |-> drop_first,
     largest |-> largest]

EFinish(name, a, r) ==
    /\ eop' = name
    /\ eargs' = a
    /\ eoutcome' = r.err
    /\ eret' = [solver |-> r.solver, lambdas |-> r.lambdas,
                 vectors |-> r.vectors, n |-> r.n, error |-> r.error,
                 excess |-> r.excess]
    /\ solves' = r.solves
    /\ UNCHANGED PYAMG_LOADED

CheckEigenSolver ==
    \E eigen_solver \in SolverNames,
       size \in {NoInt} \cup {Some(n) : n \in Sizes},
       nvec \in {NoInt} \cup {Some(n) : n \in Ks} :
        EFinish("check_eigen_solver",
                EArgs(eigen_solver, size, nvec, SquareMatrix(0, TRUE, 0), 0, 0,
                      FALSE, FALSE),
                check_eigen_solver(eigen_solver, size, nvec))

EigenDecomposition ==
    \E G \in Matrices, n_components \in Ks, eigen_solver \in SolverNames,
       drop_first \in BOOLEAN, largest \in BOOLEAN, converges \in BOOLEAN :
        EFinish("eigen_decomposition",
                EArgs(eigen_solver, Some(G.size),
                      Some(IF drop_first THEN n_components + 1
                           ELSE n_components),
                      G, n_components, 0, drop_first, largest),
                eigen_decomposition(G, n_components, eigen_solver, drop_first,
                                    largest, converges))

NullSpace ==
    \E M \in Matrices, k \in Ks, k_skip \in KSkips,
       eigen_solver \in SolverNames,
       converges1 \in BOOLEAN, converges2 \in BOOLEAN :
        EFinish("null_space",
                EArgs(eigen_solver, Some(M.size), Some(k + k_skip), M, k,
                      k_skip, FALSE, FALSE),
                null_space(M, k, k_skip, eigen_solver, converges1, converges2))

\* no call into eigendecomp.py is being looked at
SolverIdle ==
    /\ eop = "init"
    /\ eargs = EArgs("auto", NoInt, NoInt, SquareMatrix(0, TRUE, 0), 0, 0,
                     FALSE, FALSE)
    /\ eoutcome = "ok"
    /\ eret = [solver |-> "none", lambdas |-> <<>>, vectors |-> <<>>,
                n |-> 0, error |-> 0, excess |-> 0]
    /\ solves = <<>>

\* a Geometry instance with pyamg not installed
Init ==
    /\ GeometryInit
    /\ PYAMG_LOADED = FALSE
    /\ SolverIdle

Next ==
    \/ ComputeAdjacency /\ UNCHANGED evars
    \/ ComputeAffinity /\ UNCHANGED evars
    \/ ComputeLaplacian /\ UNCHANGED evars
    \/ SetDataMatrix /\ UNCHANGED evars
    \/ SetAdjacencyMatrix /\ UNCHANGED evars
    \/ SetAffinityMatrix /\ UNCHANGED evars
    \/ SetLaplacianMatrix /\ UNCHANGED evars
    \/ DeleteDataMatrix /\ UNCHANGED evars
    \/ DeleteAdjacencyMatrix /\ UNCHANGED evars
    \/ DeleteAffinityMatrix /\ UNCHANGED evars
    \/ DeleteLaplacianMatrix /\ UNCHANGED evars

Spec == Init /\ [][Next]_vars

\* the module eigendecomp with pyamg installed or not, beside a Geometry
\* instance that is not called
SolverInit ==
    /\ self = Geometry_init(None, None, None)
    /\ op = "init"
    /\ args = NoArgs
    /\ outcome = "ok"
    /\ ret = None
    /\ calls = <<>>
    /\ prev = NoPrev
    /\ PYAMG_LOADED \in BOOLEAN
    /\ SolverIdle

\* the caller is done with the result of a call
SolverReturn ==
    /\ eop # "init"
    /\ eop' = "init"
    /\ eargs' = EArgs("auto", NoInt, NoInt, SquareMatrix(0, TRUE, 0), 0, 0,
                      FALSE, FALSE)
    /\ eoutcome' = "ok"
    /\ eret' = [solver |-> "none", lambdas |-> <<>>, vectors |-> <<>>,
                 n |-> 0, error |-> 0, excess |-> 0]
    /\ solves' = <<>>
    /\ UNCHANGED PYAMG_LOADED

\* the functions of eigendecomp.py keep nothing between calls: a caller
\* makes one call, looks at what it returned or raised, and makes the next
SolverNext ==
    \/ SolverIdle /\ CheckEigenSolver /\ UNCHANGED gvars
    \/ SolverIdle /\ EigenDecomposition /\ UNCHANGED gvars
    \/ SolverIdle /\ NullSpace /\ UNCHANGED gvars
    \/ SolverReturn /\ UNCHANGED gvars

SolverSpec == SolverInit /\ [][SolverNext]_vars

----------------------------------------------------------------------------
(* Properties of the Geometry store *)

\* the field a compute call caches its result in
CacheOf(name) ==
    CASE name = "compute_adjacency_matrix" -> self.adjacency_matrix
      [] name = "compute_affinity_matrix"  -> self.affinity_matrix
      [] name = "compute_laplacian_matrix" -> self.laplacian_matrix

\* the last two calls were compute_adjacency_matrix() with copy=False and no
\* keyword arguments, and the first of them succeeded
TwiceInARow ==
    /\ prev.op = "compute_adjacency_matrix"
    /\ prev.outcome = "ok"
    /\ prev.copy = FALSE
    /\ prev.kwargs = EmptyDict
    /\ op = "compute_adjacency_matrix"
    /\ args.copy = FALSE
    /\ args.kwargs = EmptyDict

\* C1 as stated: the second of two compute_adjacency_matrix() calls in a row
\* returns the object the first returned and invokes no collaborator.
C1_SameCachedObject ==
    TwiceInARow => (outcome = "ok" /\ ret = prev.ret /\ calls = <<>>)

\* C1 as amended: the second of two compute_adjacency_matrix() calls in a row
\* invokes the adjacency collaborator again on the dataset, caches its result
\* and returns that cached object, which is not the object the first call
\* returned.
C1_Recomputes ==
    TwiceInARow =>
        /\ outcome = "ok"
        /\ Len(calls) = 1
        /\ calls[1].fn = "compute_adjacency_matrix"
        /\ calls[1].in = self.X
        /\ self.adjacency_matrix = calls[1].out
        /\ ret = self.adjacency_matrix
        /\ ret.id # prev.ret.id

C1_Witness == TwiceInARow /\ outcome = "ok" /\ ~IsNone(ret)

\* the object a collaborator invocation produced for the cache
Produced(c) == IF c.fn = "compute_laplacian_matrix" THEN c.out[1] ELSE c.out

\* C2: after a successful compute call, with copy=True the returned object is
\* not the cached object and has the cached object's contents and shape; with
\* copy=False it is the cached object; either way the cached object is the
\* one the collaborator produced.
C2_CopyFlag ==
    (op \in ComputeOps /\ outcome = "ok") =>
        /\ ~IsNone(ret) /\ ~IsNone(CacheOf(op))
        /\ CacheOf(op) = Produced(calls[Len(calls)])
        /\ args.copy => /\ ret.id # CacheOf(op).id
                        /\ [ret EXCEPT !.id = CacheOf(op).id] = CacheOf(op)
        /\ ~args.copy => ret = CacheOf(op)

C2_Witness ==
    /\ op = "compute_laplacian_matrix" /\ outcome = "ok" /\ args.copy
    /\ prev.op = "compute_affinity_matrix" /\ prev.outcome = "ok" /\ ~prev.copy

\* d contains every key of p with p's value
Contains(d, p) == \A k \in DOMAIN p : k \in DOMAIN d /\ d[k] = p[k]

\* C3: when a compute call with keyword arguments P is followed by the same
\* compute call with no keyword arguments, the collaborator of that stage is
\* invoked with keyword arguments that contain P and the constructor's
\* keywords of the stage.
C3_StickyParams ==
    (/\ op \in ComputeOps /\ prev.op = op
     /\ prev.outcome = "ok" /\ outcome = "ok"
     /\ args.kwargs = EmptyDict) =>
        /\ Contains(calls[Len(calls)].kwds, prev.kwargs)
        /\ \A k \in DOMAIN OrEmpty(self[
               CASE op = "compute_adjacency_matrix" -> "adjacency_kwds"
                 [] op = "compute_affinity_matrix"  -> "affinity_kwds"
                 [] op = "compute_laplacian_matrix" -> "laplacian_kwds"]) :
               k \in DOMAIN calls[Len(calls)].kwds

\* C4: compute_laplacian_matrix on a store with a dataset and no cached
\* adjacency, affinity or Laplacian invokes the adjacency collaborator on the
\* dataset, then the affinity collaborator on that result, then the Laplacian
\* collaborator on that result, and leaves all three fields set.
C4_DerivesInOrder ==
    [][(/\ ~IsNone(self.X)
        /\ IsNone(self.adjacency_matrix)
        /\ IsNone(self.affinity_matrix)
        /\ IsNone(self.laplacian_matrix)
        /\ op' = "compute_laplacian_matrix") =>
           /\ outcome' = "ok"
           /\ Len(calls') = 3
           /\ calls'[1].fn = "compute_adjacency_matrix"
           /\ calls'[1].in = self.X
           /\ calls'[2].fn = "compute_affinity_matrix"
           /\ calls'[2].in = calls'[1].out
           /\ calls'[3].fn = "compute_laplacian_matrix"
           /\ calls'[3].in = calls'[2].out
           /\ self'.adjacency_matrix = calls'[1].out
           /\ self'.affinity_matrix = calls'[2].out
           /\ self'.laplacian_matrix = calls'[3].out[1]]_vars

C4_Witness ==
    /\ op = "compute_laplacian_matrix" /\ outcome = "ok" /\ Len(calls) = 3
    /\ prev.op = "none" /\ IsNone(self.laplacian_symmetric)
    /\ ~IsNone(self.adjacency_matrix) /\ ~IsNone(self.affinity_matrix)
    /\ ~IsNone(self.laplacian_matrix)

\* C5: compute_affinity_matrix and compute_laplacian_matrix on a store with
\* no dataset, no adjacency and no affinity raise the missing-data error,
\* invoke no collaborator, return nothing and leave every field as it was.
C5_MissingData ==
    [][(/\ IsNone(self.X)
        /\ IsNone(self.adjacency_matrix)
        /\ IsNone(self.affinity_matrix)
        /\ op' \in {"compute_affinity_matrix", "compute_laplacian_matrix"}) =>
           /\ outcome' = "MissingDataError"
           /\ calls' = <<>>
           /\ IsNone(ret')
           /\ self' = self]_vars

C5_Witness ==
    /\ op = "compute_laplacian_matrix" /\ outcome = "MissingDataError"
    /\ IsNone(self.X) /\ IsNone(self.adjacency_matrix)
    /\ IsNone(self.affinity_matrix) /\ ~IsNone(self.laplacian_matrix)

\* the matrix was handed in by the caller, not computed by the store
Injected(m) == ~IsNone(m) /\ m.id[1] = "input"

\* C6 as stated: compute_adjacency_matrix raises the missing-data error
\* exactly when no dataset is set and no adjacency matrix was injected.
C6_InjectedSuffices ==
    [][op' = "compute_adjacency_matrix" =>
          (outcome' = "MissingDataError" <=>
              (IsNone(self.X) /\ ~Injected(self.adjacency_matrix)))]_vars

\* C6 as amended: compute_adjacency_matrix raises the missing-data error
\* exactly when no dataset is set, whether or not an adjacency matrix was
\* injected; otherwise it succeeds.
C6_DatasetRequired ==
    [][op' = "compute_adjacency_matrix" =>
          /\ outcome' = "MissingDataError" <=> IsNone(self.X)
          /\ outcome' = "ok" <=> ~IsNone(self.X)]_vars

C6_Witness ==
    /\ op = "compute_adjacency_matrix" /\ outcome = "MissingDataError"
    /\ Injected(self.adjacency_matrix) /\ IsNone(self.X)

\* the field a setter writes
FieldOf(name) ==
    CASE name = "set_adjacency_matrix" -> "adjacency_matrix"
      [] name = "set_affinity_matrix"  -> "affinity_matrix"
      [] name = "set_laplacian_matrix" -> "laplacian_matrix"
      [] name = "set_data_matrix"      -> "X"
      [] name = "delete_adjacency_matrix" -> "adjacency_matrix"
      [] name = "delete_affinity_matrix"  -> "affinity_matrix"
      [] name = "delete_laplacian_matrix" -> "laplacian_matrix"
      [] name = "delete_data_matrix"      -> "X"

MatrixSetters ==
    {"set_adjacency_matrix", "set_affinity_matrix", "set_laplacian_matrix"}

\* C7: set_adjacency_matrix, set_affinity_matrix and set_laplacian_matrix
\* given a 2-D matrix that is not square raise the shape error and leave
\* every field as it was; given a square one they store that very matrix in
\* their field and leave the other fields as they were.
C7_SquareOnly ==
    [][(op' \in MatrixSetters /\ args'.matrix.ndim = 2) =>
          IF args'.matrix.rows # args'.matrix.cols
          THEN outcome' = "ShapeError" /\ self' = self
          ELSE /\ outcome' = "ok"
               /\ self' = [self EXCEPT ![FieldOf(op')] = args'.matrix]]_vars

C7_Witness ==
    /\ op = "set_affinity_matrix" /\ outcome = "ShapeError"
    /\ args.matrix = Rect3x4
    /\ ~IsNone(self.affinity_matrix) /\ ~Injected(self.affinity_matrix)

SettersAndDeleters ==
    MatrixSetters \cup
    {"set_data_matrix", "delete_data_matrix", "delete_adjacency_matrix",
     "delete_affinity_matrix", "delete_laplacian_matrix"}

\* C8: each set_* and delete_* method leaves every field other than its own
\* as it was.
C8_NoCascade ==
    [][op' \in SettersAndDeleters =>
          \A f \in (DOMAIN self) \ {FieldOf(op')} : self'[f] = self[f]]_vars

\* a downstream matrix is cached while its upstream fields have been cleared
C8_Witness ==
    /\ op = "delete_adjacency_matrix"
    /\ IsNone(self.X) /\ IsNone(self.adjacency_matrix)
    /\ ~IsNone(self.affinity_matrix) /\ ~Injected(self.affinity_matrix)
    /\ ~IsNone(self.laplacian_matrix) /\ ~IsNone(self.laplacian_weights)

\* C9: a successful compute_laplacian_matrix with return_lapsym=True returns
\* the tuple (Laplacian, symmetric Laplacian, weights); with
\* return_lapsym=False it returns the Laplacian matrix alone.
C9_ReturnsTriple ==
    (op = "compute_laplacian_matrix" /\ outcome = "ok") =>
        IF args.return_lapsym
        THEN /\ ret.kind = "tuple"
             /\ Len(ret.items) = 3
             /\ ret.items[1].val = self.laplacian_matrix.val
             /\ ret.items[2] = self.laplacian_symmetric
             /\ ret.items[3] = self.laplacian_weights
        ELSE /\ ret.kind = "matrix"
             /\ ret.val = self.laplacian_matrix.val

----------------------------------------------------------------------------
(* Properties of the solver selection *)

SolverErrors == {"UnsupportedSolverError", "UnavailableSolverError"}

\* C10: check_eigen_solver raises on exactly two requests, an unknown solver
\* name (unsupported) and amg without pyamg (unavailable); with pyamg absent
\* every other known name resolves to a solver other than amg; and a call of
\* eigen_decomposition or null_space that raises one of the two errors has
\* invoked no numerical routine.
C10_SolverErrors ==
    /\ eop = "check_eigen_solver" =>
           /\ eoutcome = "UnsupportedSolverError"
                  <=> eargs.eigen_solver \notin EIGEN_SOLVERS
           /\ eoutcome = "UnavailableSolverError"
                  <=> (eargs.eigen_solver = "amg" /\ ~PYAMG_LOADED)
           /\ eoutcome \in SolverErrors \cup {"ok"}
    /\ (eop # "init" /\ ~PYAMG_LOADED
        /\ eargs.eigen_solver \in EIGEN_SOLVERS \ {"amg"}) =>
           /\ eoutcome \notin SolverErrors
           /\ eret.solver # "amg"
           /\ \A i \in 1..Len(solves) :
                  solves[i].fn # "smoothed_aggregation_solver"
    /\ eop \in {"eigen_decomposition", "null_space"} =>
           /\ eargs.eigen_solver \notin EIGEN_SOLVERS
                  => eoutcome = "UnsupportedSolverError"
           /\ (eargs.eigen_solver = "amg" /\ ~PYAMG_LOADED)
                  => eoutcome = "UnavailableSolverError"
           /\ eoutcome \in SolverErrors => solves = <<>>

C10_Witness ==
    /\ eop = "null_space"
    /\ eargs.eigen_solver = "amg" /\ ~PYAMG_LOADED
    /\ eoutcome = "UnavailableSolverError" /\ solves = <<>>

\* C11: a request for auto with the matrix size and the number of vectors
\* known resolves to amg when size > 200, nvec < 10 and pyamg is loaded, to
\* arpack when size > 200, nvec < 10 and pyamg is absent, and to dense in
\* every other case; check_eigen_solver returns without error and never
\* returns auto.
C11_AutoResolution ==
    (eop # "init" /\ eargs.eigen_solver = "auto"
     /\ Known(eargs.size) /\ Known(eargs.nvec)) =>
        /\ eop = "check_eigen_solver" => eoutcome = "ok"
        /\ eret.solver # "auto"
        /\ (eargs.size[1] > 200 /\ eargs.nvec[1] < 10 /\ PYAMG_LOADED)
               => eret.solver = "amg"
        /\ (eargs.size[1] > 200 /\ eargs.nvec[1] < 10 /\ ~PYAMG_LOADED)
               => eret.solver = "arpack"
        /\ ~(eargs.size[1] > 200 /\ eargs.nvec[1] < 10)
               => eret.solver = "dense"

C11_Witness ==
    /\ eop = "check_eigen_solver" /\ eargs.eigen_solver = "auto"
    /\ eargs.size = Some(MaxSize) /\ eargs.nvec = Some(1)
    /\ PYAMG_LOADED /\ eret.solver = "amg"

\* the number of vectors eigen_decomposition is asked to find
Requested == IF eargs.drop_first THEN eargs.k + 1 ELSE eargs.k

----------------------------------------------------------------------------
(* Properties of eigen_decomposition *)

NonIncreasing(s) == \A i \in 1..(Len(s) - 1) : s[i] >= s[i + 1]

NonDecreasing(s) == \A i \in 1..(Len(s) - 1) : s[i] <= s[i + 1]

\* C13: for a symmetric matrix and whichever solver is resolved,
\* eigen_decomposition returns its eigenvalues in non-increasing order when
\* largest is set and in non-decreasing order when it is not.
C13_OrderedByFlag ==
    (eop = "eigen_decomposition" /\ eoutcome = "ok" /\ eargs.G.symmetric) =>
        IF eargs.largest
        THEN NonIncreasing(eret.lambdas)
        ELSE NonDecreasing(eret.lambdas)

\* the values in a sequence
Range(s) == {s[i] : i \in 1..Len(s)}

\* the m algebraically largest, or smallest, eigenvalues of G
Extreme(G, m, largest) ==
    IF largest
    THEN {Eigenvalue(G, i) : i \in (G.size + 1 - m)..G.size}
    ELSE {Eigenvalue(G, i) : i \in 1..m}

\* C14: for a diagonal matrix with distinct integer eigenvalues, some of
\* them negative or none, every solver mode of eigen_decomposition returns
\* the algebraically largest eigenvalues when largest is set and the
\* algebraically smallest when it is not, as many as were requested.
C14_AlgebraicExtremes ==
    (eop = "eigen_decomposition" /\ eoutcome = "ok" /\ eargs.G.symmetric
     /\ Requested <= eargs.G.size) =>
        Range(eret.lambdas) = Extreme(eargs.G, Requested, eargs.largest)

\* C15: whatever the size of the matrix, the number requested and the solver
\* resolved, a successful eigen_decomposition returns exactly n_components
\* eigenvalues and eigenvectors when drop_first is not set and exactly
\* n_components + 1 when it is, as many eigenvalues as eigenvectors.
C15_ExactCount ==
    (eop = "eigen_decomposition" /\ eoutcome = "ok") =>
        /\ Len(eret.lambdas) = Requested
        /\ Len(eret.vectors) = Requested
        /\ Len(eret.lambdas) = Len(eret.vectors)

\* C16: when the solver resolved by eigen_decomposition is amg or lobpcg and
\* the matrix is not symmetric, the call raises SymmetryRequiredError with no
\* numerical routine invoked and nothing returned; when the solver resolved
\* is dense or arpack the call never raises SymmetryRequiredError.
C16_SymmetryRequired ==
    eop = "eigen_decomposition" =>
        /\ (eret.solver \in {"amg", "lobpcg"} /\ ~eargs.G.symmetric) =>
               /\ eoutcome = "SymmetryRequiredError"
               /\ solves = <<>>
               /\ eret.lambdas = <<>> /\ eret.vectors = <<>>
        /\ eret.solver \in {"dense", "arpack"} =>
               eoutcome # "SymmetryRequiredError"
        /\ eoutcome = "SymmetryRequiredError" => ~eargs.G.symmetric

\* auto resolved to amg for a matrix that is not symmetric
C16_Witness ==
    /\ eop = "eigen_decomposition" /\ eargs.eigen_solver = "auto"
    /\ ~eargs.G.symmetric /\ eret.solver = "amg"
    /\ eoutcome = "SymmetryRequiredError" /\ solves = <<>>

----------------------------------------------------------------------------
(* Properties of null_space *)

\* how many eigenvalues of M are smaller in magnitude than x
MagnitudeRank(M, x) ==
    Cardinality({i \in 1..M.size : Abs(Eigenvalue(M, i)) < Abs(x)})

\* C17: for every solver mode and k + k_skip within the size of the matrix,
\* a successful null_space returns exactly k vectors, those that follow the
\* k_skip skipped ones in order of eigenvalue magnitude.
C17_ExactlyK ==
    (eop = "null_space" /\ eoutcome = "ok"
     /\ eargs.k + eargs.k_skip <= eargs.G.size) =>
        /\ eret.n = eargs.k
        /\ Cardinality(Range(eret.vectors)) = eargs.k
        /\ \A x \in Range(eret.vectors) :
               MagnitudeRank(eargs.G, x) \in
                   eargs.k_skip..(eargs.k_skip + eargs.k - 1)

IsLobpcg(e) == e.fn = "lobpcg"

\* the runs of lobpcg made by the last call, in order
LobpcgRuns == SelectSeq(solves, IsLobpcg)

\* C18: null_space with amg or lobpcg first solves I + M and subtracts 1;
\* after a first attempt that did not converge it solves 2I + M, M being the
\* matrix the caller passed, and subtracts the shift it applied, so that the
\* eigenvalues it sorts and sums are those of M in both attempts.
C18_ShiftRestored ==
    eop = "null_space" =>
        /\ Len(LobpcgRuns) >= 1 => LobpcgRuns[1].shift = 1
        /\ Len(LobpcgRuns) >= 2 =>
               /\ LobpcgRuns[1].end = "failed"
               /\ LobpcgRuns[2].shift = 2
        /\ eoutcome = "ok" =>
               /\ eret.excess = 0
               /\ eret.lambdas = eret.vectors

IsEigenRoutine(e) == e.fn # "smoothed_aggregation_solver"

\* the runs of an eigenvalue routine made by the last call, in order
EigenRuns == SelectSeq(solves, IsEigenRoutine)

\* C19: null_space runs an eigenvalue routine at most twice; a second run is
\* made only for amg or lobpcg, after a first run that did not converge, and
\* never for arpack or dense; when the arpack run fails, or both runs for amg
\* or lobpcg fail, null_space raises NullSpaceComputationError and returns
\* nothing.
C19_RetryOnce ==
    eop = "null_space" =>
        /\ Len(EigenRuns) <= 2
        /\ Len(EigenRuns) = 2 =>
               /\ eret.solver \in {"amg", "lobpcg"}
               /\ EigenRuns[1].end = "failed"
        /\ eret.solver \in {"arpack", "dense"} => Len(EigenRuns) <= 1
        /\ (EigenRuns # <<>> /\ EigenRuns[Len(EigenRuns)].end = "failed") =>
               /\ eoutcome = "NullSpaceComputationError"
               /\ eret.vectors = <<>> /\ eret.lambdas = <<>>

\* C20: the error null_space returns is the sum of the eigenvalues of M that
\* belong to the vectors it returns, none of them among the k_skip
\* eigenvalues of smallest magnitude: the zero mode is left out for
\* k_skip = 1 and counted for k_skip = 0.  M is symmetric positive
\* semi-definite, as null_space requires.
C20_ErrorOfReturned ==
    (eop = "null_space" /\ eoutcome = "ok"
     /\ eargs.G.symmetric /\ eargs.G.lowest = 0) =>
        /\ eret.error = Sum(eret.vectors)
        /\ \A x \in Range(eret.vectors) :
               MagnitudeRank(eargs.G, x) >= eargs.k_skip
        /\ eargs.k_skip = 0 => 0 \in Range(eret.vectors)
        /\ eargs.k_skip = 1 => 0 \notin Range(eret.vectors)

----------------------------------------------------------------------------
(* Further properties of the Geometry store *)

\* the collaborator fn is among the invocations cs
Invoked(cs, fn) == \E i \in 1..Len(cs) : cs[i].fn = fn

\* C21: compute_affinity_matrix calls compute_adjacency_matrix exactly when
\* the adjacency field is None and compute_laplacian_matrix calls
\* compute_affinity_matrix exactly when the affinity field is None.  With the
\* upstream matrix at hand, computed earlier or set by the caller, the call
\* succeeds with or without a dataset, hands that very matrix to its
\* collaborator, invokes no upstream collaborator and leaves the upstream
\* fields as they were.  With the upstream matrix missing, the upstream
\* method runs: it raises the missing-data error or invokes its collaborator.
C21_UpstreamOnlyIfAbsent ==
    [][/\ op' = "compute_affinity_matrix" =>
             IF IsNone(self.adjacency_matrix)
             THEN \/ outcome' = "MissingDataError" /\ IsNone(self.X)
                  \/ /\ outcome' = "ok"
                     /\ Len(calls') = 2
                     /\ calls'[1].fn = "compute_adjacency_matrix"
                     /\ calls'[2].in = calls'[1].out
             ELSE /\ outcome' = "ok"
                  /\ Len(calls') = 1
                  /\ calls'[1].fn = "compute_affinity_matrix"
                  /\ calls'[1].in = self.adjacency_matrix
                  /\ self'.adjacency_matrix = self.adjacency_matrix
       /\ op' = "compute_laplacian_matrix" =>
             IF IsNone(self.affinity_matrix)
             THEN \/ outcome' = "MissingDataError" /\ IsNone(self.X)
                  \/ /\ outcome' = "ok"
                     /\ Invoked(calls', "compute_affinity_matrix")
                     /\ Invoked(calls', "compute_adjacency_matrix")
                            <=> IsNone(self.adjacency_matrix)
                     /\ calls'[Len(calls')].in = calls'[Len(calls') - 1].out
             ELSE /\ outcome' = "ok"
                  /\ Len(calls') = 1
                  /\ calls'[1].fn = "compute_laplacian_matrix"
                  /\ calls'[1].in = self.affinity_matrix
                  /\ self'.affinity_matrix = self.affinity_matrix
                  /\ self'.adjacency_matrix = self.adjacency_matrix]_vars

\* a Laplacian computed from an affinity matrix the caller set, on a store
\* that has neither a dataset nor an adjacency matrix
C21_Witness ==
    /\ op = "compute_laplacian_matrix" /\ outcome = "ok"
    /\ IsNone(self.X) /\ IsNone(self.adjacency_matrix)
    /\ Len(calls) = 1 /\ Injected(calls[1].in)
    /\ calls[1].in = self.affinity_matrix

\* the calls after which the Laplacian field may differ while the symmetric
\* Laplacian and the weights must not
PrimaryOnly ==
    \/ op' = "compute_laplacian_matrix" /\ ~args'.return_lapsym
    \/ op' = "set_laplacian_matrix"
    \/ op' = "delete_laplacian_matrix"

\* laplacian_symmetric and laplacian_weights are both None or both set, and
\* when set they are the second and third matrix that the Laplacian
\* collaborator produced under full_output
AuxiliaryPaired ==
    /\ IsNone(self.laplacian_symmetric) <=> IsNone(self.laplacian_weights)
    /\ ~IsNone(self.laplacian_symmetric) =>
           /\ self.laplacian_symmetric.id[1] = "laplacian_symmetric"
           /\ self.laplacian_weights.id[1] = "laplacian_weights"

\* the two fields are written by a successful compute_laplacian_matrix with
\* return_lapsym set, which stores what the collaborator returned, and by
\* no other call
AuxiliaryStep ==
    /\ (self'.laplacian_symmetric # self.laplacian_symmetric
        \/ self'.laplacian_weights # self.laplacian_weights) =>
           /\ op' = "compute_laplacian_matrix"
           /\ args'.return_lapsym
           /\ outcome' = "ok"
           /\ self'.laplacian_symmetric = calls'[Len(calls')].out[2]
           /\ self'.laplacian_weights = calls'[Len(calls')].out[3]
    /\ (op' = "compute_laplacian_matrix" /\ args'.return_lapsym
        /\ outcome' = "ok") =>
           /\ self'.laplacian_symmetric # self.laplacian_symmetric
           /\ self'.laplacian_weights # self.laplacian_weights
    /\ PrimaryOnly =>
           /\ self'.laplacian_symmetric = self.laplacian_symmetric
           /\ self'.laplacian_weights = self.laplacian_weights

\* C22: in every state laplacian_symmetric and laplacian_weights are both
\* None or both set, and they are set only by a successful
\* compute_laplacian_matrix with return_lapsym; no other call writes them,
\* so that after compute_laplacian_matrix without return_lapsym,
\* set_laplacian_matrix or delete_laplacian_matrix they still hold what the
\* earlier call stored, whatever became of the Laplacian itself.
C22_AuxiliaryOnRequest == []AuxiliaryPaired /\ [][AuxiliaryStep]_vars

\* the Laplacian was cleared after a call that stored all three matrices:
\* the symmetric Laplacian and the weights are still there
C22_Witness ==
    /\ op = "delete_laplacian_matrix"
    /\ IsNone(self.laplacian_matrix)
    /\ ~IsNone(self.laplacian_symmetric)
    /\ ~IsNone(self.laplacian_weights)

----------------------------------------------------------------------------
(* Solver resolution and symmetry *)

\* C23: eigen_decomposition with solver auto on a matrix that is not
\* symmetric, with more than 200 rows and fewer than 10 vectors requested
\* (n_components, plus 1 under drop_first), while pyamg is loaded, resolves
\* to amg and raises SymmetryRequiredError: no routine is invoked, nothing is
\* returned, and no solver that accepts the matrix is tried in its place.
C23_AutoIgnoresSymmetry ==
    (/\ eop = "eigen_decomposition" /\ eargs.eigen_solver = "auto"
     /\ ~eargs.G.symmetric /\ eargs.G.size > AutoMinSize
     /\ Requested < AutoMaxNvec /\ PYAMG_LOADED) =>
        /\ eret.solver = "amg"
        /\ eoutcome = "SymmetryRequiredError"
        /\ solves = <<>>
        /\ eret.lambdas = <<>> /\ eret.vectors = <<>>

\* such a call under drop_first, whose vector count is n_components + 1
C23_Witness ==
    /\ eop = "eigen_decomposition" /\ eargs.eigen_solver = "auto"
    /\ ~eargs.G.symmetric /\ eargs.G.size > AutoMinSize
    /\ eargs.drop_first /\ Requested < AutoMaxNvec /\ PYAMG_LOADED
    /\ eoutcome = "SymmetryRequiredError" /\ eret.solver = "amg"

====
